---- MODULE Spec2Model ----
(***************************************************************************)
(* Biometric identification of LifeXBackend: the 1:N identifier            *)
(* (users/face_only_login.py), the identify / confirm session protocol     *)
(* and the face login endpoints (users/quick_face_login_views.py,          *)
(* users/biometric_views.py) and the operations that mutate a biometric    *)
(* profile (users/biometric_serializers.py).                               *)
(*                                                                         *)
(* Distances, thresholds and encodings are in hundredths (0.6 is 60).  A   *)
(* face encoding is a one-dimensional embedding, so that the Euclidean     *)
(* distance of two encodings is the absolute value of their difference.    *)
(* Time is in seconds and advances in steps of Tick.                       *)
(***************************************************************************)
EXTENDS Integers, Sequences, FiniteSets, Bags, TLC

\* ---- bounds of the model ----
MaxPop == 10          \* user ids are 1..MaxPop
MaxTokens == 1        \* session tokens that identify may mint
MaxReqs == 2          \* confirm-identity requests in flight at once
MaxTime == 90         \* the clock stops at MaxTime seconds
MaxAttempts == 6      \* admitted attempts in a row that the history counts

\* ---- sets of inputs ----
Tick == 45            \* granularity of the clock, in seconds
EncSet == {30, 40, 45, 55, 57, 60, 90}
FreeUsers == {1, 2, 3}    \* the users whose encoding is drawn from EncSet
FarEnc == CHOOSE e \in EncSet : \A f \in EncSet : f <= e    \* the others' encoding

UserIds == 1..MaxPop
Tokens == 1..MaxTokens
NoUser == 0           \* Python None for a user
NoToken == 0
NoFace == -1          \* an image in which not exactly one face is found

NoImage == -2         \* a request without a face_image file
Endpoints == {"identify_face", "quick_face_login"}

VARIABLES
    users,        \* user id -> the User row
    profiles,     \* user id -> the BiometricData row of the user
    now,          \* time.time()
    backend,      \* the cache backend of settings.CACHES
    cache,        \* token -> the entry under face_session_<token>
    ratelimit,    \* endpoint -> the attempts counter of the one client IP
    nextToken,    \* the next fresh value of secrets.token_urlsafe
    sessionLog,   \* token -> what identify passed to cache.set (history)
    reqs,         \* the bag of requests in flight
    consumed,     \* token -> outcome of the confirm call that used it up (history)
    last,         \* the latest response of any endpoint
    products      \* product id -> the Product row

vars == <<users, profiles, now, backend, cache, ratelimit, nextToken,
          sessionLog, reqs, consumed, last, products>>

\* ---- users/biometric_utils.py ----

Abs(x) == IF x < 0 THEN -x ELSE x

\* generate_face_encoding: raises FaceDetectionError unless exactly one face
EncodingRaises(image) == image = NoFace
generate_face_encoding(image) == image

\* compare_faces: (is_match, distance), distance the Euclidean norm
face_distance(e1, e2) == Abs(e1 - e2)
compare_faces(e1, e2, tolerance) ==
    [is_match |-> face_distance(e1, e2) <= tolerance,
     distance |-> face_distance(e1, e2)]

\* settings.BIOMETRIC_SETTINGS['FACE_MATCH_THRESHOLD'], 0.75
get_face_match_threshold == 75

\* the step function as it would be with inclusive breakpoints
get_adaptive_threshold_inclusive(user_count) ==
    IF user_count <= 10 THEN 60
    ELSE IF user_count <= 100 THEN 55
    ELSE IF user_count <= 1000 THEN 50
    ELSE 45

get_adaptive_threshold(user_count) ==
    IF user_count < 10 THEN 60
    ELSE IF user_count < 100 THEN 55
    ELSE IF user_count < 1000 THEN 50
    ELSE 45

\* ---- users/face_only_login.py ----

\* the filter of the query of identify_user_by_face
Eligible(p) ==
    /\ p.exists
    /\ p.face_recognition_enabled
    /\ p.is_face_verified
    /\ p.status \in {"PENDING", "CONFIRMED"}

\* the query in the model's default ordering, newest profile first
RECURSIVE QueryFrom(_, _)
QueryFrom(profs, u) ==
    IF u = 0 THEN <<>>
    ELSE (IF Eligible(profs[u]) THEN <<u>> ELSE <<>>) \o QueryFrom(profs, u - 1)

biometric_users(profs) == QueryFrom(profs, MaxPop)

\* list.sort(key=distance): a stable sort
RECURSIVE InsertMatch(_, _)
InsertMatch(m, s) ==
    IF s = <<>> THEN <<m>>
    ELSE IF m.distance < Head(s).distance THEN <<m>> \o s
    ELSE <<Head(s)>> \o InsertMatch(m, Tail(s))

RECURSIVE SortMatches(_)
SortMatches(s) ==
    IF s = <<>> THEN <<>>
    ELSE InsertMatch(s[Len(s)], SortMatches(SubSeq(s, 1, Len(s) - 1)))

FirstThree(s) == SubSeq(s, 1, IF Len(s) < 3 THEN Len(s) ELSE 3)

\* the matches list before sorting
ScanMatches(profs, enc, threshold) ==
    LET q == biometric_users(profs)
    IN  [i \in 1..Len(q) |->
            [user |-> q[i],
             distance |-> compare_faces(profs[q[i]].live_face_encoding, enc, threshold).distance,
             is_match |-> compare_faces(profs[q[i]].live_face_encoding, enc, threshold).is_match]]

IdentifyRaise == [raised |-> TRUE, user |-> NoUser, distance |-> 100, matches |-> <<>>]

\* identify_user_by_face as it would be with a well-formed log line in its
\* no-confident-match branch: the branch returns (None, best distance, top 3)
identify_no_match_returns(image, profs) ==
    IF EncodingRaises(image) THEN IdentifyRaise
    ELSE
    LET user_count == Len(biometric_users(profs))
        threshold == get_adaptive_threshold(user_count)
        matches == SortMatches(ScanMatches(profs, generate_face_encoding(image), threshold))
    IN  IF user_count = 0
        THEN [raised |-> FALSE, user |-> NoUser, distance |-> 100, matches |-> <<>>]
        ELSE IF Len(matches) > 0 /\ matches[1].is_match
        THEN IF Len(matches) > 1 /\ matches[2].distance < matches[1].distance + 10
             THEN [raised |-> FALSE, user |-> NoUser,
                   distance |-> matches[1].distance, matches |-> FirstThree(matches)]
             ELSE [raised |-> FALSE, user |-> matches[1].user,
                   distance |-> matches[1].distance, matches |-> FirstThree(matches)]
        ELSE [raised |-> FALSE, user |-> NoUser,
              distance |-> matches[1].distance, matches |-> FirstThree(matches)]

\* identify_user_by_face as it would be without the check of the second match
identify_without_margin(image, profs) ==
    IF EncodingRaises(image) THEN IdentifyRaise
    ELSE
    LET user_count == Len(biometric_users(profs))
        threshold == get_adaptive_threshold(user_count)
        matches == SortMatches(ScanMatches(profs, generate_face_encoding(image), threshold))
    IN  IF user_count = 0
        THEN [raised |-> FALSE, user |-> NoUser, distance |-> 100, matches |-> <<>>]
        ELSE IF Len(matches) > 0 /\ matches[1].is_match
        THEN [raised |-> FALSE, user |-> matches[1].user,
              distance |-> matches[1].distance, matches |-> FirstThree(matches)]
        ELSE IdentifyRaise

\* identify_user_by_face as it would be without sorting the matches: the
\* first profile of the query is taken for the best match
identify_unsorted(image, profs) ==
    IF EncodingRaises(image) THEN IdentifyRaise
    ELSE
    LET user_count == Len(biometric_users(profs))
        threshold == get_adaptive_threshold(user_count)
        matches == ScanMatches(profs, generate_face_encoding(image), threshold)
    IN  IF user_count = 0
        THEN [raised |-> FALSE, user |-> NoUser, distance |-> 100, matches |-> <<>>]
        ELSE IF Len(matches) > 0 /\ matches[1].is_match
        THEN IF Len(matches) > 1 /\ matches[2].distance < matches[1].distance + 10
             THEN [raised |-> FALSE, user |-> NoUser,
                   distance |-> matches[1].distance, matches |-> FirstThree(matches)]
             ELSE [raised |-> FALSE, user |-> matches[1].user,
                   distance |-> matches[1].distance, matches |-> FirstThree(matches)]
        ELSE IdentifyRaise

\* identify_user_by_face(face_image) with the adaptive threshold.  The
\* no-confident-match branch formats its log line with an invalid format
\* specifier, which raises ValueError; the function turns every exception
\* into Exception("Face identification failed").
identify_user_by_face(image, profs) ==
    IF EncodingRaises(image) THEN IdentifyRaise
    ELSE
    LET user_count == Len(biometric_users(profs))
        threshold == get_adaptive_threshold(user_count)
        matches == SortMatches(ScanMatches(profs, generate_face_encoding(image), threshold))
    IN  IF user_count = 0
        THEN [raised |-> FALSE, user |-> NoUser, distance |-> 100, matches |-> <<>>]
        ELSE IF Len(matches) > 0 /\ matches[1].is_match
        THEN IF Len(matches) > 1 /\ matches[2].distance < matches[1].distance + 10
             THEN [raised |-> FALSE, user |-> NoUser,
                   distance |-> matches[1].distance, matches |-> FirstThree(matches)]
             ELSE [raised |-> FALSE, user |-> matches[1].user,
                   distance |-> matches[1].distance, matches |-> FirstThree(matches)]
        ELSE IdentifyRaise

\* quick_face_login(face_image): the status of the result dict
quick_face_login(image, profs) ==
    LET r == identify_user_by_face(image, profs)
    IN  IF r.raised THEN [status |-> "ERROR", user |-> NoUser]
        ELSE IF r.user = NoUser
        THEN IF Len(r.matches) > 1 /\ r.matches[1].distance < 60
             THEN [status |-> "AMBIGUOUS", user |-> NoUser]
             ELSE [status |-> "NO_MATCH", user |-> NoUser]
        ELSE [status |-> "SUCCESS", user |-> r.user]

\* ---- django.core.cache as configured by settings.CACHES ----
\* DummyCache stores nothing.  A storing backend keeps an entry until it
\* evicts it, which it may do once the timeout of the entry has passed.

NoEntry == [present |-> FALSE, kind |-> "none", user_id |-> NoUser,
            candidates |-> <<>>, expires |-> 0, evict_at |-> 0]

cache_get(c, key) == IF backend = "dummy" THEN NoEntry ELSE c[key]

cache_set(c, key, value, timeout) ==
    IF backend = "dummy" THEN c
    ELSE [c EXCEPT ![key] = [value EXCEPT !.evict_at = now + timeout]]

cache_delete(c, key) == [c EXCEPT ![key] = NoEntry]

NoCounter == [count |-> 0, evict_at |-> 0]

attempts_get(rl, ep) == IF backend = "dummy" THEN 0 ELSE rl[ep].count

attempts_set(rl, ep, n, timeout) ==
    IF backend = "dummy" THEN rl
    ELSE [rl EXCEPT ![ep] = [count |-> n, evict_at |-> now + timeout]]

\* the backend drops a session entry whose timeout has passed
EvictSession ==
    /\ backend # "dummy"
    /\ \E t \in Tokens :
            /\ cache[t].present /\ cache[t].evict_at <= now
            /\ cache' = cache_delete(cache, t)
    /\ UNCHANGED <<users, profiles, now, backend, products, ratelimit, nextToken, sessionLog, reqs, consumed, last>>

\* the backend drops an attempts counter whose timeout has passed
EvictCounter ==
    /\ backend # "dummy"
    /\ \E ep \in Endpoints :
            /\ ratelimit[ep].count > 0 /\ ratelimit[ep].evict_at <= now
            /\ ratelimit' = [ratelimit EXCEPT ![ep] = NoCounter]
    /\ UNCHANGED <<users, profiles, now, backend, products, cache, nextToken, sessionLog, reqs, consumed, last>>

\* the clock advances; a request is served in far less than one Tick
TickClock ==
    /\ now + Tick <= MaxTime
    /\ reqs = EmptyBag
    /\ now' = now + Tick
    /\ UNCHANGED <<users, profiles, backend, products, cache, ratelimit, nextToken, sessionLog, reqs, consumed, last>>

\* ---- users/quick_face_login_views.py ----

\* a response; minted: RefreshToken.for_user was called while it was made
Response(op, http, status, user, token, image, minted) ==
    [op |-> op, http |-> http, status |-> status, user |-> user, token |-> token,
     image |-> image, minted |-> minted, confirmed |-> FALSE, at |-> 0, streak |-> 0]

\* the attempts of endpoint op that were admitted past its rate limit in a
\* row at this value of the clock (history)
Streak(op) == IF last.op = op /\ last.at = now /\ last.streak > 0 THEN last.streak ELSE 0

\* the response of a rate limited endpoint, with the time of the answer and
\* the admitted attempts in a row that it ends
Attempt(resp, admitted) ==
    [resp EXCEPT !.at = now,
                 !.streak = Streak(resp.op) + (IF admitted THEN 1 ELSE 0)]

NoLog == [minted |-> FALSE, kind |-> "none", user_id |-> NoUser,
          candidates |-> <<>>, expires |-> 0, at |-> 0]

CandidateIds(matches) == [i \in 1..Len(matches) |-> matches[i].user]

\* the session value that IdentifyFaceView stores for an identification
SessionValue(r) ==
    IF r.user = NoUser
    THEN [present |-> TRUE, kind |-> "candidates", user_id |-> NoUser,
          candidates |-> CandidateIds(r.matches), expires |-> now + 60,
          evict_at |-> 0]
    ELSE [present |-> TRUE, kind |-> "user", user_id |-> r.user,
          candidates |-> <<>>, expires |-> now + 60, evict_at |-> 0]

\* IdentifyFaceView.post without its except block: the exception of the
\* identifier leaves the handler
IdentifyEscapes(image) ==
    Response("identify", 0, "exception", NoUser, NoToken, image, FALSE)

\* the except block of IdentifyFaceView.post: an audit entry and HTTP 500
IdentifyExcept(image) ==
    Response("identify", 500, "error", NoUser, NoToken, image, FALSE)

\* IdentifyFaceView.post
IdentifyFace(image) ==
    /\ nextToken <= MaxTokens
    /\ Streak("identify") < MaxAttempts
    /\ UNCHANGED <<users, profiles, now, backend, products, reqs, consumed>>
    /\ IF attempts_get(ratelimit, "identify_face") >= 5
       THEN /\ last' = Attempt(Response("identify", 429, "rate_limited", NoUser, NoToken,
                                        image, FALSE), FALSE)
            /\ UNCHANGED <<cache, ratelimit, nextToken, sessionLog>>
       ELSE
       /\ ratelimit' = attempts_set(ratelimit, "identify_face",
                                    attempts_get(ratelimit, "identify_face") + 1, 60)
       /\ IF image = NoImage
          THEN /\ last' = Attempt(Response("identify", 400, "bad_request", NoUser, NoToken,
                                           image, FALSE), TRUE)
               /\ UNCHANGED <<cache, nextToken, sessionLog>>
          ELSE
          LET r == identify_user_by_face(image, profiles)
              ambiguous == /\ r.user = NoUser
                           /\ Len(r.matches) > 1
                           /\ r.matches[1].distance < 60
          IN  IF r.raised
              THEN /\ last' = Attempt(IdentifyExcept(image), TRUE)
                   /\ UNCHANGED <<cache, nextToken, sessionLog>>
              ELSE IF r.user = NoUser /\ ~ambiguous
              THEN /\ last' = Attempt(Response("identify", 401, "not_found", NoUser, NoToken,
                                               image, FALSE), TRUE)
                   /\ UNCHANGED <<cache, nextToken, sessionLog>>
              ELSE /\ cache' = cache_set(cache, nextToken, SessionValue(r), 60)
                   /\ sessionLog' = [sessionLog EXCEPT ![nextToken] =
                          [minted |-> TRUE, kind |-> SessionValue(r).kind,
                           user_id |-> SessionValue(r).user_id,
                           candidates |-> SessionValue(r).candidates,
                           expires |-> SessionValue(r).expires, at |-> now]]
                   /\ nextToken' = nextToken + 1
                   /\ last' = Attempt(Response("identify", 200,
                                               IF ambiguous THEN "ambiguous" ELSE "identified",
                                               r.user, nextToken, image, FALSE), TRUE)

\* QuickFaceLoginView.post after the rate limit: the answer to the request.
\* After minting, the audit line reads
\* result["confidence"], a key quick_face_login never sets: the KeyError is
\* caught by the handler and answered with 500.  A result of status ERROR
\* falls into the else branch of the view, the one of NO_MATCH.
QuickAnswer(image) ==
    IF image = NoImage
    THEN Response("quick_face_login", 400, "bad_request", NoUser, NoToken, image, FALSE)
    ELSE
    LET result == quick_face_login(image, profiles)
    IN  IF result.status = "SUCCESS"
        THEN IF ~users[result.user].is_active
             THEN Response("quick_face_login", 403, "inactive", result.user, NoToken,
                           image, FALSE)
             ELSE Response("quick_face_login", 500, "error", result.user, NoToken,
                           image, TRUE)
        ELSE IF result.status = "AMBIGUOUS"
        THEN Response("quick_face_login", 200, "ambiguous", NoUser, NoToken, image, FALSE)
        ELSE Response("quick_face_login", 401, "no_match", NoUser, NoToken, image, FALSE)

\* QuickFaceLoginView.post
QuickFaceLogin(image) ==
    /\ Streak("quick_face_login") < MaxAttempts
    /\ UNCHANGED <<users, profiles, now, backend, products, cache, nextToken, sessionLog, reqs,
                   consumed>>
    /\ IF attempts_get(ratelimit, "quick_face_login") >= 5
       THEN /\ last' = Attempt(Response("quick_face_login", 429, "rate_limited", NoUser,
                                        NoToken, image, FALSE), FALSE)
            /\ UNCHANGED ratelimit
       ELSE
       /\ ratelimit' = attempts_set(ratelimit, "quick_face_login",
                                    attempts_get(ratelimit, "quick_face_login") + 1, 60)
       /\ last' = Attempt(QuickAnswer(image), TRUE)

\* ConfirmFaceLoginView.post
ConfirmFaceLogin(user_id, image) ==
    /\ UNCHANGED <<users, profiles, now, backend, products, cache, ratelimit, nextToken,
                   sessionLog, reqs, consumed>>
    /\ IF user_id = NoUser \/ image = NoImage
       THEN last' = Response("confirm_face_login", 400, "bad_request", NoUser, NoToken,
                             image, FALSE)
       ELSE IF ~users[user_id].exists
       THEN last' = Response("confirm_face_login", 404, "not_found", NoUser, NoToken,
                             image, FALSE)
       ELSE IF EncodingRaises(image) \/ ~profiles[user_id].exists
       THEN last' = Response("confirm_face_login", 500, "error", user_id, NoToken,
                             image, FALSE)
       ELSE IF ~compare_faces(profiles[user_id].live_face_encoding,
                              generate_face_encoding(image), 60).is_match
       THEN last' = Response("confirm_face_login", 401, "no_match", user_id, NoToken,
                             image, FALSE)
       ELSE last' = Response("confirm_face_login", 200, "success", user_id, NoToken,
                             image, TRUE)

\* ---- ConfirmIdentityView.post, one step per cache operation ----

NewReq(token, user_id, confirmed) ==
    [pc |-> "start", token |-> token, user_id |-> user_id, confirmed |-> confirmed,
     session |-> NoEntry, result |-> "none"]

\* the response of a confirm-identity request, with what the client sent and
\* the time of the answer
ConfirmResponse(req, http, status) ==
    [op |-> "confirm_identity", http |-> http, status |-> status,
     user |-> req.user_id, token |-> req.token, image |-> NoImage,
     minted |-> (status = "success"), confirmed |-> req.confirmed, at |-> now,
     streak |-> 0]

Put(bag, req) == bag (+) SetToBag({req})
Take(bag, req) == bag (-) SetToBag({req})

\* ConfirmStart as it would be without the check of 'expires'
ConfirmStartNoExpiryCheck(token, user_id, confirmed) ==
    /\ BagCardinality(reqs) < MaxReqs
    /\ UNCHANGED <<users, profiles, now, backend, products, ratelimit, nextToken,
                   sessionLog, consumed>>
    /\ LET req == NewReq(token, user_id, confirmed)
           session_data == cache_get(cache, token)
       IN  IF token = NoToken \/ user_id = NoUser
           THEN /\ last' = ConfirmResponse(req, 400, "bad_request")
                /\ UNCHANGED <<cache, reqs>>
           ELSE IF ~session_data.present
           THEN /\ last' = ConfirmResponse(req, 401, "expired_or_invalid")
                /\ UNCHANGED <<cache, reqs>>
           ELSE /\ reqs' = Put(reqs, [req EXCEPT !.pc = "validate",
                                                 !.session = session_data])
                /\ UNCHANGED <<cache, last>>

\* parameters, cache.get and the expiry check
ConfirmStart(token, user_id, confirmed) ==
    /\ BagCardinality(reqs) < MaxReqs
    /\ UNCHANGED <<users, profiles, now, backend, products, ratelimit, nextToken,
                   sessionLog, consumed>>
    /\ LET req == NewReq(token, user_id, confirmed)
           session_data == cache_get(cache, token)
       IN  IF token = NoToken \/ user_id = NoUser
           THEN /\ last' = ConfirmResponse(req, 400, "bad_request")
                /\ UNCHANGED <<cache, reqs>>
           ELSE IF ~session_data.present
           THEN /\ last' = ConfirmResponse(req, 401, "expired_or_invalid")
                /\ UNCHANGED <<cache, reqs>>
           ELSE IF session_data.expires < now
           THEN /\ cache' = cache_delete(cache, token)
                /\ last' = ConfirmResponse(req, 401, "expired")
                /\ UNCHANGED reqs
           ELSE /\ reqs' = Put(reqs, [req EXCEPT !.pc = "validate",
                                                 !.session = session_data])
                /\ UNCHANGED <<cache, last>>

InSeq(x, s) == \E i \in 1..Len(s) : s[i] = x

\* a check that lets every user_id pass
SessionAllowsAny(session_data, user_id) == TRUE

\* the check of user_id against the session read by this request
SessionAllows(session_data, user_id) ==
    IF session_data.kind = "user" THEN session_data.user_id = user_id
    ELSE InSeq(user_id, session_data.candidates)

\* user lookup, the check against the session, and the minting
ConfirmValidate(req) ==
    /\ BagIn(req, reqs)
    /\ req.pc = "validate"
    /\ UNCHANGED <<users, profiles, now, backend, products, cache, ratelimit, nextToken,
                   sessionLog, consumed>>
    /\ IF ~users[req.user_id].exists
       THEN /\ last' = ConfirmResponse(req, 404, "not_found")
            /\ reqs' = Take(reqs, req)
       ELSE IF ~SessionAllows(req.session, req.user_id)
       THEN /\ last' = ConfirmResponse(req, 400, "mismatch")
            /\ reqs' = Take(reqs, req)
       ELSE IF ~req.confirmed
       THEN /\ reqs' = Put(Take(reqs, req), [req EXCEPT !.pc = "delete",
                                                        !.result = "rejected",
                                                        !.session = NoEntry])
            /\ UNCHANGED last
       ELSE IF ~users[req.user_id].is_active
       THEN /\ last' = ConfirmResponse(req, 403, "inactive")
            /\ reqs' = Take(reqs, req)
       ELSE /\ reqs' = Put(Take(reqs, req), [req EXCEPT !.pc = "delete",
                                                        !.result = "success",
                                                        !.session = NoEntry])
            /\ UNCHANGED last

\* ConfirmDelete as it would be without the cache.delete
ConfirmDeleteKeepsEntry(req) ==
    /\ BagIn(req, reqs)
    /\ req.pc = "delete"
    /\ last' = ConfirmResponse(req, 200, req.result)
    /\ consumed' = [consumed EXCEPT ![req.token] = req.result]
    /\ reqs' = Take(reqs, req)
    /\ UNCHANGED <<users, profiles, now, backend, products, cache, ratelimit, nextToken,
                   sessionLog>>

\* cache.delete and the response
ConfirmDelete(req) ==
    /\ BagIn(req, reqs)
    /\ req.pc = "delete"
    /\ cache' = cache_delete(cache, req.token)
    /\ last' = ConfirmResponse(req, 200, req.result)
    /\ consumed' = [consumed EXCEPT ![req.token] = req.result]
    /\ reqs' = Take(reqs, req)
    /\ UNCHANGED <<users, profiles, now, backend, products, ratelimit, nextToken, sessionLog>>

\* ---- users/biometric_views.py, users/biometric_serializers.py ----

\* FaceLoginSerializer.validate as it would be without the comparison
FaceLoginValidateAnyFace(email, image) ==
    IF email = NoUser \/ image = NoImage THEN NoUser
    ELSE IF ~users[email].exists THEN NoUser
    ELSE IF ~profiles[email].exists THEN NoUser
    ELSE IF ~profiles[email].face_recognition_enabled THEN NoUser
    ELSE IF EncodingRaises(image) THEN NoUser
    ELSE email

\* FaceLoginSerializer.validate: the user it validates, or NoUser
FaceLoginValidate(email, image) ==
    IF email = NoUser \/ image = NoImage THEN NoUser
    ELSE IF ~users[email].exists THEN NoUser
    ELSE IF ~profiles[email].exists THEN NoUser
    ELSE IF ~profiles[email].face_recognition_enabled THEN NoUser
    ELSE IF EncodingRaises(image) THEN NoUser
    ELSE IF ~compare_faces(profiles[email].live_face_encoding,
                           generate_face_encoding(image),
                           get_face_match_threshold).is_match THEN NoUser
    ELSE email

\* FaceLoginView.post
FaceLogin(email, image) ==
    /\ UNCHANGED <<users, profiles, now, backend, products, cache, ratelimit, nextToken,
                   sessionLog, reqs, consumed>>
    /\ LET user == FaceLoginValidate(email, image)
       IN  IF user = NoUser
           THEN last' = Response("face_login", 400, "invalid", NoUser, NoToken, image, FALSE)
           ELSE IF ~users[user].is_active
           THEN last' = Response("face_login", 403, "inactive", user, NoToken, image, FALSE)
           ELSE last' = Response("face_login", 200, "success", user, NoToken, image, TRUE)

NoUserRow == [exists |-> FALSE, is_active |-> FALSE]
NoEncoding == -3      \* Python None for id_face_encoding: no face found on the ID card
NoProfile == [exists |-> FALSE, is_face_verified |-> FALSE,
              face_recognition_enabled |-> FALSE, status |-> "NONE",
              live_face_encoding |-> 0, id_face_encoding |-> NoEncoding]

MaxRegistered == 2    \* registrations in one behaviour

NewUserId == CHOOSE u \in UserIds : ~users[u].exists /\ \A v \in 1..(u - 1) : users[v].exists

\* the status as it would be if the except branch of the ledger call did not
\* mark the profile
LedgerStatusUnmarked(ledger) ==
    IF ledger = "success" THEN "CONFIRMED" ELSE IF ledger = "failed" THEN "FAILED" ELSE "PENDING"

\* register_biometric_on_blockchain: the status it leaves on the profile
LedgerStatus(ledger) == IF ledger = "success" THEN "CONFIRMED" ELSE "FAILED"

\* the response of the registration endpoint, with what the ledger call of
\* this request did ("not_called" when the request did not get that far)
RegisterResponse(http, status, user, image, minted, ledger) ==
    [op |-> "register", http |-> http, status |-> status, user |-> user, token |-> NoToken,
     image |-> image, minted |-> minted, confirmed |-> FALSE, at |-> 0, streak |-> 0,
     ledger |-> ledger]

\* BiometricRegistrationView.post with BiometricRegistrationSerializer.create
\* id_image, live_image: the two uploads; store: whether
\* BiometricData.objects.create stores the row and its image files or raises;
\* ledger: what the ledger call does
Register(id_image, live_image, store, ledger) ==
    /\ \E u \in 1..MaxRegistered : ~users[u].exists
    /\ UNCHANGED <<now, backend, products, cache, ratelimit, nextToken, sessionLog, reqs, consumed>>
    /\ IF EncodingRaises(live_image)
       THEN /\ last' = RegisterResponse(400, "invalid", NoUser, live_image, FALSE, "not_called")
            /\ UNCHANGED <<users, profiles>>
       ELSE IF /\ ~EncodingRaises(id_image)
               /\ ~compare_faces(generate_face_encoding(id_image),
                                  generate_face_encoding(live_image),
                                  get_face_match_threshold).is_match
       THEN /\ last' = RegisterResponse(500, "error", NoUser, live_image, FALSE, "not_called")
            /\ UNCHANGED <<users, profiles>>
       ELSE IF store = "raise"
       THEN \* User.objects.create_user has committed; the exception of the
            \* profile's create reaches the view's except
            /\ users' = [users EXCEPT ![NewUserId] = [exists |-> TRUE, is_active |-> TRUE]]
            /\ UNCHANGED profiles
            /\ last' = RegisterResponse(500, "error", NewUserId, live_image, FALSE,
                                        "not_called")
       ELSE LET u == NewUserId
                has_id_face == ~EncodingRaises(id_image)
                is_match == TRUE
            IN  /\ users' = [users EXCEPT ![u] = [exists |-> TRUE, is_active |-> TRUE]]
                /\ profiles' = [profiles EXCEPT ![u] =
                       [exists |-> TRUE, is_face_verified |-> is_match,
                        face_recognition_enabled |-> is_match,
                        status |-> LedgerStatus(ledger),
                        live_face_encoding |-> generate_face_encoding(live_image),
                        id_face_encoding |-> IF has_id_face
                                             THEN generate_face_encoding(id_image)
                                             ELSE NoEncoding]]
                /\ last' = RegisterResponse(201, "created", u, live_image, TRUE, ledger)

\* VerifyBiometricDataView.post with BiometricVerificationSerializer.update
StaffVerify(user_id, approved) ==
    /\ UNCHANGED <<users, now, backend, products, cache, ratelimit, nextToken, sessionLog,
                   reqs, consumed>>
    /\ IF ~users[user_id].exists \/ ~profiles[user_id].exists
       THEN /\ last' = Response("verify", 404, "not_found", user_id, NoToken, NoImage, FALSE)
            /\ UNCHANGED profiles
       ELSE /\ profiles' = [profiles EXCEPT ![user_id].is_face_verified = approved]
            /\ last' = Response("verify", 200, IF approved THEN "approved" ELSE "rejected",
                                user_id, NoToken, NoImage, FALSE)

\* ToggleFaceRecognitionSerializer.validate
ToggleValid(user, enable, password_ok) ==
    /\ password_ok
    /\ profiles[user].exists
    /\ ~(enable /\ ~profiles[user].is_face_verified)

\* ToggleFaceRecognitionView.post for the authenticated user.  The view
\* calls enable_face_recognition() / disable_face_recognition(), which the
\* BiometricData model does not define: the AttributeError is answered
\* with 500 and the profile is left as it was.
ToggleFaceRecognition(user, enable, password_ok) ==
    /\ users[user].exists
    /\ UNCHANGED <<users, profiles, now, backend, products, cache, ratelimit, nextToken,
                   sessionLog, reqs, consumed>>
    /\ IF ~ToggleValid(user, enable, password_ok)
       THEN last' = Response("toggle", 400, "invalid", user, NoToken, NoImage, FALSE)
       ELSE last' = Response("toggle", 500, IF enable THEN "enable" ELSE "disable",
                             user, NoToken, NoImage, FALSE)

\* ---- the session protocol on a fixed enrolled population ----

Enrolled == 1..4          \* the session protocol's population
Inactive == {3}           \* the enrolled users whose account is not active
Unknown == CHOOSE u \in UserIds : u \notin Enrolled    \* an id of no user
SessionProbes == {0, 100}
ConfirmUsers == {1, 4}    \* user 1 is stored in every session, user 4 in none

\* user 1 is alone near probe 0, users 3 and 2 are both near probe 100,
\* every other user is far from both
SessionEnc(u) == IF u = 1 THEN 30 ELSE IF u = 2 THEN 90 ELSE IF u = 3 THEN 95 ELSE 300

EnrolledProfile(enc) ==
    [exists |-> TRUE, is_face_verified |-> TRUE, face_recognition_enabled |-> TRUE,
     status |-> "CONFIRMED", live_face_encoding |-> enc, id_face_encoding |-> enc]

\* ---- products/models.py ----

MaxProducts == 2      \* product rows
MaxStock == 2         \* the largest stock quantity submitted

NoProduct == [exists |-> FALSE, stock_quantity |-> 0, status |-> "draft"]

\* Product.save: the row as it is stored
Product_save(row) ==
    IF row.stock_quantity = 0 /\ row.status = "active"
    THEN [row EXCEPT !.status = "out_of_stock"]
    ELSE row

NoResponse == Response("none", 0, "none", NoUser, NoToken, NoImage, FALSE)

InitCommon ==
    /\ now = 0
    /\ cache = [t \in Tokens |-> NoEntry]
    /\ ratelimit = [ep \in Endpoints |-> NoCounter]
    /\ nextToken = 1
    /\ sessionLog = [t \in Tokens |-> NoLog]
    /\ reqs = EmptyBag
    /\ consumed = [t \in Tokens |-> "no"]
    /\ last = NoResponse
    /\ products = [p \in 1..MaxProducts |-> NoProduct]

Init ==
    /\ InitCommon
    /\ backend \in {"dummy", "ttl"}
    /\ users = [u \in UserIds |-> IF u \in Enrolled
                                   THEN [exists |-> TRUE, is_active |-> u \notin Inactive]
                                   ELSE NoUserRow]
    /\ profiles = [u \in UserIds |-> IF u \in Enrolled
                                      THEN EnrolledProfile(SessionEnc(u))
                                      ELSE NoProfile]

Identify == \E image \in SessionProbes : IdentifyFace(image)

\* a client sends a token that identify has handed out
ConfirmBegin ==
    \E token \in 1..(nextToken - 1), user_id \in ConfirmUsers, confirmed \in BOOLEAN :
          ConfirmStart(token, user_id, confirmed)

ConfirmCheck == \E req \in BagToSet(reqs) : ConfirmValidate(req)

ConfirmEnd == \E req \in BagToSet(reqs) : ConfirmDelete(req)

Next ==
    \/ Identify
    \/ ConfirmBegin
    \/ ConfirmCheck
    \/ ConfirmEnd
    \/ TickClock
    \/ EvictSession

Spec == Init /\ [][Next]_vars

\* ---- every face login endpoint on the fixed enrolled population ----

LoginImages == {0, 110}
FaceLoginUsers == {1, 3}
ConfirmFaceUsers == {3}
LoginConfirmUsers == {1, 3, Unknown}

\* one identification in a behaviour
IdentifyOnce == nextToken = 1 /\ Identify

\* one confirm-identity request at a time
ConfirmOne ==
    /\ reqs = EmptyBag
    /\ \E token \in 1..(nextToken - 1), user_id \in LoginConfirmUsers,
          confirmed \in BOOLEAN : ConfirmStart(token, user_id, confirmed)

FaceLoginAny == \E email \in FaceLoginUsers, image \in LoginImages : FaceLogin(email, image)

ConfirmFaceAny ==
    \E user_id \in ConfirmFaceUsers, image \in LoginImages :
          ConfirmFaceLogin(user_id, image)

QuickAny == \E image \in LoginImages : QuickFaceLogin(image)

NextLogin ==
    \/ IdentifyOnce
    \/ ConfirmOne
    \/ ConfirmCheck
    \/ ConfirmEnd
    \/ FaceLoginAny
    \/ ConfirmFaceAny
    \/ QuickAny
    \/ TickClock
    \/ EvictSession
    \/ EvictCounter

SpecLogin == Init /\ [][NextLogin]_vars

\* ---- QuickFaceLoginView.post as concurrent workers run it: the read of the
\* ---- attempts counter and its write are two cache operations ----

MaxWorkers == 2       \* quick-face-login requests in flight at once

\* cache.get(cache_key, 0) and the test of the limit
QuickAdmit(image) ==
    /\ BagCardinality(reqs) < MaxWorkers
    /\ Streak("quick_face_login") < MaxAttempts
    /\ UNCHANGED <<users, profiles, now, backend, products, cache, ratelimit, nextToken,
                   sessionLog, consumed>>
    /\ IF attempts_get(ratelimit, "quick_face_login") >= 5
       THEN /\ last' = Attempt(Response("quick_face_login", 429, "rate_limited", NoUser,
                                        NoToken, image, FALSE), FALSE)
            /\ UNCHANGED reqs
       ELSE /\ reqs' = Put(reqs, [pc |-> "admitted", image |-> image,
                                  attempts |-> attempts_get(ratelimit, "quick_face_login")])
            /\ UNCHANGED last

\* cache.set(cache_key, attempts + 1, 60) with the attempts read before, and
\* the rest of the handler
QuickProceed(req) ==
    /\ BagIn(req, reqs)
    /\ req.pc = "admitted"
    /\ UNCHANGED <<users, profiles, now, backend, products, cache, nextToken, sessionLog,
                   consumed>>
    /\ ratelimit' = attempts_set(ratelimit, "quick_face_login", req.attempts + 1, 60)
    /\ reqs' = Take(reqs, req)
    /\ last' = Attempt(QuickAnswer(req.image), TRUE)

\* ---- quick-face-login requests of one client served concurrently; the
\* ---- cache stores (with DummyCache no counter is ever kept) ----

InitWorkers == Init /\ backend = "ttl"

NextWorkers ==
    \/ \E image \in LoginImages \cup {NoImage} : QuickAdmit(image)
    \/ \E req \in BagToSet(reqs) : QuickProceed(req)

SpecWorkers == InitWorkers /\ [][NextWorkers]_vars

\* ---- the identifier on populations of every size up to MaxPop ----

IdentifyProbes == {0, NoFace}

ActiveUserRow == [exists |-> TRUE, is_active |-> TRUE]

InitIdentify ==
    /\ InitCommon
    /\ backend \in {"dummy", "ttl"}
    /\ \E n \in 0..MaxPop :
       \E enc \in [FreeUsers -> EncSet] :
          /\ \A u \in FreeUsers : u > n => enc[u] = FarEnc
          /\ users = [u \in UserIds |-> IF u <= n THEN ActiveUserRow ELSE NoUserRow]
          /\ profiles = [u \in UserIds |->
                IF u > n THEN NoProfile
                ELSE EnrolledProfile(IF u \in FreeUsers THEN enc[u] ELSE FarEnc)]

IdentifyAny == \E image \in IdentifyProbes : IdentifyFace(image)

NextIdentify == IdentifyAny

SpecIdentify == InitIdentify /\ [][NextIdentify]_vars

\* ---- the operations that mutate a biometric profile ----

RegisterImages == {NoFace, 30, 110}

InitProfiles ==
    /\ InitCommon
    /\ backend = "dummy"
    /\ users = [u \in UserIds |-> NoUserRow]
    /\ profiles = [u \in UserIds |-> NoProfile]

RegisterAny ==
    \E id_image \in RegisterImages, live_image \in RegisterImages,
       store \in {"stored", "raise"}, ledger \in {"success", "failed", "raise"} :
          Register(id_image, live_image, store, ledger)

StaffVerifyAny ==
    \E user_id \in 1..(MaxRegistered + 1), approved \in BOOLEAN :
          StaffVerify(user_id, approved)

ToggleAny ==
    \E user \in 1..MaxRegistered, enable \in BOOLEAN, password_ok \in BOOLEAN :
          ToggleFaceRecognition(user, enable, password_ok)

NextProfiles ==
    \/ RegisterAny
    \/ StaffVerifyAny
    \/ ToggleAny

SpecProfiles == InitProfiles /\ [][NextProfiles]_vars

\* ---- the face login endpoints while an administrator edits profiles ----

AdminUsers == {1, 3}

\* BiometricDataAdmin: the change form of a profile, in which
\* face_recognition_enabled is an editable field
AdminSave(user_id, enabled) ==
    /\ profiles[user_id].exists
    /\ profiles' = [profiles EXCEPT ![user_id].face_recognition_enabled = enabled]
    /\ last' = Response("admin", 302, "saved", user_id, NoToken, NoImage, FALSE)
    /\ UNCHANGED <<users, now, backend, products, cache, ratelimit, nextToken, sessionLog, reqs,
                   consumed>>

AdminAny == \E user_id \in AdminUsers, enabled \in BOOLEAN : AdminSave(user_id, enabled)

NextGate ==
    \/ AdminAny
    \/ IdentifyOnce
    \/ ConfirmOne
    \/ ConfirmCheck
    \/ ConfirmEnd
    \/ FaceLoginAny
    \/ ConfirmFaceAny
    \/ QuickAny

SpecGate == Init /\ [][NextGate]_vars

\* ---- users/biometric_utils.py: perform_liveness_verification ----

MaxFrames == 3        \* frames in one liveness call

\* passed_checks / total_required: a float, kept as the fraction it is
Ratio(n, d) == [num |-> n, den |-> d]
RatioEq(a, b) == a.num * b.den = b.num * a.den

\* the entry of results['checks'] of a check that was not required
NoCheck == [ran |-> FALSE, passed |-> FALSE, error |-> FALSE, escaped |-> FALSE]

\* one check as it would be outside a try block of its own: its exception
\* reaches the outer except of the function
run_check_unguarded(outcome) ==
    IF outcome = "raise"
    THEN [ran |-> FALSE, passed |-> FALSE, error |-> FALSE, escaped |-> TRUE]
    ELSE [ran |-> TRUE, passed |-> (outcome = "pass"), error |-> FALSE, escaped |-> FALSE]

\* one check inside its try block: the detector passes, fails or raises, and
\* an exception is recorded as passed = False with an error detail
run_check(outcome) ==
    [ran |-> TRUE, passed |-> (outcome = "pass"), error |-> (outcome = "raise"),
     escaped |-> FALSE]

\* the photo attack check on the first, middle and last frame; frames[i]:
\* whether detect_photo_attack judges frame i real
PhotoIndices(frames) ==
    (IF Len(frames) > 0 THEN <<1, (Len(frames) \div 2) + 1>> ELSE <<>>)
        \o (IF Len(frames) > 1 THEN <<Len(frames)>> ELSE <<>>)

RECURSIVE SumReal(_, _)
SumReal(frames, idx) ==
    IF idx = <<>> THEN 0
    ELSE (IF frames[Head(idx)] THEN 1 ELSE 0) + SumReal(frames, Tail(idx))

photo_vote(frames) ==
    IF 2 * SumReal(frames, PhotoIndices(frames)) > Len(PhotoIndices(frames))
    THEN "pass" ELSE "fail"

\* the aggregation as it would be with partial credit: live when at least
\* half of the required checks passed
liveness_aggregate_partial(passed_checks, total_required) ==
    IF total_required > 0
    THEN [confidence |-> Ratio(passed_checks, total_required),
          is_live |-> 2 * passed_checks >= total_required]
    ELSE [confidence |-> Ratio(1, 1), is_live |-> TRUE]

\* the aggregation of the checks into confidence and is_live
liveness_aggregate(passed_checks, total_required) ==
    IF total_required > 0
    THEN [confidence |-> Ratio(passed_checks, total_required),
          is_live |-> passed_checks = total_required]
    ELSE [confidence |-> Ratio(1, 1), is_live |-> TRUE]

NoLiveness == [raised |-> TRUE, is_live |-> FALSE, confidence |-> Ratio(0, 1),
               checks |-> [blink |-> NoCheck, movement |-> NoCheck, photo_attack |-> NoCheck],
               error |-> FALSE]

\* perform_liveness_verification(frames, require_blink, require_movement,
\* check_photo_attack).  a.available: BIOMETRIC_AVAILABLE; a.blink,
\* a.movement: what the detector does in that check; a.photo_raises: whether
\* detect_photo_attack raises.
perform_liveness_verification(a) ==
    IF ~a.available THEN NoLiveness
    ELSE
    LET b == IF a.require_blink THEN run_check(a.blink) ELSE NoCheck
        m == IF a.require_movement /\ ~b.escaped THEN run_check(a.movement) ELSE NoCheck
        p == IF a.check_photo_attack /\ ~b.escaped /\ ~m.escaped
             THEN run_check(IF a.photo_raises THEN "raise" ELSE photo_vote(a.frames))
             ELSE NoCheck
        Count(flag) == IF flag THEN 1 ELSE 0
        total_required == Count(a.require_blink) + Count(a.require_movement)
                              + Count(a.check_photo_attack)
        passed_checks == Count(b.passed) + Count(m.passed) + Count(p.passed)
        checks == [blink |-> b, movement |-> m, photo_attack |-> p]
    IN  IF b.escaped \/ m.escaped \/ p.escaped
        THEN [raised |-> FALSE, is_live |-> FALSE, confidence |-> Ratio(0, 1),
              checks |-> checks, error |-> TRUE]
        ELSE [raised |-> FALSE,
              is_live |-> liveness_aggregate(passed_checks, total_required).is_live,
              confidence |-> liveness_aggregate(passed_checks, total_required).confidence,
              checks |-> checks, error |-> FALSE]

FrameSeqs == UNION {[1..n -> BOOLEAN] : n \in 0..MaxFrames}

LivenessArgs ==
    [available : BOOLEAN, require_blink : BOOLEAN, require_movement : BOOLEAN,
     check_photo_attack : BOOLEAN, blink : {"pass", "fail", "raise"},
     movement : {"pass", "fail", "raise"}, photo_raises : BOOLEAN, frames : FrameSeqs]

\* a call of perform_liveness_verification, as LivenessVerificationView.post
\* and verify_face_with_liveness make it: an exception is answered with 500.
\* The function keeps no state between calls: one call in a behaviour.
LivenessCall(a) ==
    /\ last.op # "liveness"
    /\ last' = [op |-> "liveness",
                http |-> IF perform_liveness_verification(a).raised THEN 500 ELSE 200,
                status |-> IF perform_liveness_verification(a).raised THEN "error"
                           ELSE IF perform_liveness_verification(a).is_live THEN "live"
                           ELSE "not_live",
                user |-> NoUser, token |-> NoToken, image |-> NoImage, minted |-> FALSE,
                confirmed |-> FALSE, at |-> 0, streak |-> 0,
                args |-> a, result |-> perform_liveness_verification(a)]
    /\ UNCHANGED <<users, profiles, now, backend, products, cache, ratelimit, nextToken, sessionLog,
                   reqs, consumed>>

LivenessAny == \E a \in LivenessArgs : LivenessCall(a)

NextLiveness == LivenessAny

SpecLiveness == InitProfiles /\ [][NextLiveness]_vars

\* ---- enrolment followed by identification ----

PopulationProbes == {0, 100, NoFace, NoImage}
EnrolIdImages == {NoFace, 30}     \* the ID card without or with a detectable face
EnrolLiveImage == CHOOSE e \in EncSet : \A f \in EncSet : e <= f

InitPopulation ==
    /\ InitCommon
    /\ backend \in {"dummy", "ttl"}
    /\ users = [u \in UserIds |-> NoUserRow]
    /\ profiles = [u \in UserIds |-> NoProfile]

EnrolAny ==
    \E id_image \in EnrolIdImages, ledger \in {"success", "raise"} :
          Register(id_image, EnrolLiveImage, "stored", ledger)

IdentifyProbe == \E image \in PopulationProbes : IdentifyFace(image)

QuickProbe == \E image \in PopulationProbes : QuickFaceLogin(image)

NextPopulation ==
    \/ EnrolAny
    \/ IdentifyProbe
    \/ QuickProbe

SpecPopulation == InitPopulation /\ [][NextPopulation]_vars

\* ---- products/views.py: ProductViewSet ----

ProductResponse(op, http, status) == Response(op, http, status, NoUser, NoToken, NoImage, FALSE)

\* POST /api/products/ with ProductCreateUpdateSerializer.  A field of the
\* request body: stock_quantity is <<n>>, or <<>> when it is not submitted;
\* status is a status, or "Absent".  The model defaults stand for a field
\* that is not submitted
ProductCreate(fields) ==
    /\ \E p \in 1..MaxProducts : ~products[p].exists
    /\ UNCHANGED <<users, profiles, now, backend, cache, ratelimit, nextToken, sessionLog,
                   reqs, consumed>>
    /\ IF fields.stock_quantity # <<>> /\ fields.stock_quantity[1] < 0
       THEN /\ last' = ProductResponse("product_create", 400, "invalid")
            /\ UNCHANGED products
       ELSE LET p == CHOOSE q \in 1..MaxProducts : ~products[q].exists
            IN  /\ products' = [products EXCEPT ![p] = Product_save(
                       [exists |-> TRUE,
                        stock_quantity |-> IF fields.stock_quantity = <<>> THEN 0
                                           ELSE fields.stock_quantity[1],
                        status |-> IF fields.status = "Absent" THEN "draft"
                                   ELSE fields.status])]
                /\ last' = ProductResponse("product_create", 201, "created")

\* PUT/PATCH /api/products/{id}/: the submitted fields are set on the
\* instance, which is saved
ProductUpdate(pk, fields) ==
    /\ UNCHANGED <<users, profiles, now, backend, cache, ratelimit, nextToken, sessionLog,
                   reqs, consumed>>
    /\ IF ~products[pk].exists
       THEN /\ last' = ProductResponse("product_update", 404, "not_found")
            /\ UNCHANGED products
       ELSE IF fields.stock_quantity # <<>> /\ fields.stock_quantity[1] < 0
       THEN /\ last' = ProductResponse("product_update", 400, "invalid")
            /\ UNCHANGED products
       ELSE /\ products' = [products EXCEPT ![pk] = Product_save(
                   [exists |-> TRUE,
                    stock_quantity |-> IF fields.stock_quantity = <<>>
                                       THEN products[pk].stock_quantity
                                       ELSE fields.stock_quantity[1],
                    status |-> IF fields.status = "Absent" THEN products[pk].status
                               ELSE fields.status])]
            /\ last' = ProductResponse("product_update", 200, "updated")

\* PATCH /api/products/{id}/update_stock/
ProductUpdateStock(pk, stock_quantity) ==
    /\ UNCHANGED <<users, profiles, now, backend, cache, ratelimit, nextToken, sessionLog,
                   reqs, consumed>>
    /\ IF ~products[pk].exists
       THEN /\ last' = ProductResponse("update_stock", 404, "not_found")
            /\ UNCHANGED products
       ELSE IF stock_quantity = <<>> \/ stock_quantity[1] < 0
       THEN /\ last' = ProductResponse("update_stock", 400, "invalid")
            /\ UNCHANGED products
       ELSE /\ products' = [products EXCEPT ![pk] =
                   Product_save([products[pk] EXCEPT !.stock_quantity = stock_quantity[1]])]
            /\ last' = ProductResponse("update_stock", 200, "updated")

\* POST /api/products/bulk_update/: Product.objects.filter(id__in=...).update(...)
\* writes the rows in the database without calling Product.save
ProductBulkUpdate(product_ids, status) ==
    /\ UNCHANGED <<users, profiles, now, backend, cache, ratelimit, nextToken, sessionLog,
                   reqs, consumed>>
    /\ IF product_ids = {} \/ \E p \in product_ids : ~products[p].exists
       THEN /\ last' = ProductResponse("bulk_update", 400, "invalid")
            /\ UNCHANGED products
       ELSE /\ products' = [p \in 1..MaxProducts |->
                   IF p \in product_ids /\ status # "Absent"
                   THEN [products[p] EXCEPT !.status = status]
                   ELSE products[p]]
            /\ last' = ProductResponse("bulk_update", 200, "updated")

SubmittedStock == {<<>>} \cup {<<n>> : n \in -1..MaxStock}

ProductFields ==
    [stock_quantity : SubmittedStock,
     status : {"draft", "active", "discontinued", "out_of_stock", "Absent"}]

NextProducts ==
    \/ \E fields \in ProductFields : ProductCreate(fields)
    \/ \E pk \in 1..MaxProducts, fields \in ProductFields : ProductUpdate(pk, fields)
    \/ \E pk \in 1..MaxProducts, stock_quantity \in SubmittedStock :
          ProductUpdateStock(pk, stock_quantity)
    \/ \E product_ids \in SUBSET (1..MaxProducts),
          status \in {"draft", "active", "discontinued", "out_of_stock", "Absent"} :
          ProductBulkUpdate(product_ids, status)

SpecProducts == InitProfiles /\ [][NextProducts]_vars

\* ---- users/liveness_detection.py: LivenessDetector.detect_blink ----

MaxBlinkFrames == 6                 \* frames in one detect_blink call

\* min(ear_values), max(ear_values) and the transitions of the series
\* below_threshold = [ear < EAR_THRESHOLD], EAR in hundredths
EarStats(ear_values) ==
    LET EAR_THRESHOLD == 25
        below_threshold == [i \in 1..Len(ear_values) |-> ear_values[i] < EAR_THRESHOLD]
        ears == {ear_values[i] : i \in 1..Len(ear_values)}
    IN  [min_ear |-> CHOOSE e \in ears : \A f \in ears : e <= f,
         max_ear |-> CHOOSE e \in ears : \A f \in ears : e >= f,
         transitions |-> Cardinality({i \in 2..Len(ear_values) :
                             below_threshold[i] # below_threshold[i - 1]})]

\* the pattern test as it would be if one crossing of the threshold sufficed
detect_blink_pattern_one_transition(ear_values) ==
    IF EarStats(ear_values).max_ear - EarStats(ear_values).min_ear < 5 THEN FALSE
    ELSE EarStats(ear_values).transitions >= 1

\* _detect_blink_pattern
detect_blink_pattern(ear_values) ==
    IF EarStats(ear_values).max_ear - EarStats(ear_values).min_ear < 5 THEN FALSE
    ELSE EarStats(ear_values).transitions >= 2

\* detect_blink(frames).  predictor: whether the landmark model was loaded;
\* a frame is the EAR of the face found in it, or NoFace
detect_blink(predictor, frames) ==
    LET ear_values == SelectSeq(frames, LAMBDA f : f # NoFace)
    IN  IF ~predictor
        THEN [raised |-> TRUE, passed |-> FALSE, error |-> FALSE, ear_values |-> <<>>]
        ELSE IF Len(ear_values) < 5
        THEN [raised |-> FALSE, passed |-> FALSE, error |-> TRUE, ear_values |-> ear_values]
        ELSE [raised |-> FALSE, passed |-> detect_blink_pattern(ear_values),
              error |-> FALSE, ear_values |-> ear_values]

BlinkFrames == UNION {[1..n -> {20, 24, 26, 35, NoFace}] : n \in 0..MaxBlinkFrames}

\* ---- the functions that keep no state between calls ----

\* one call of such a function: what was called, with what, and the result
Call(op, args, result) ==
    /\ last' = [op |-> op, http |-> 0, status |-> "returned", user |-> NoUser,
                token |-> NoToken, image |-> NoImage, minted |-> FALSE,
                confirmed |-> FALSE, at |-> 0, streak |-> 0,
                args |-> args, result |-> result]
    /\ UNCHANGED <<users, profiles, now, backend, products, cache, ratelimit, nextToken, sessionLog,
                   reqs, consumed>>

\* a behaviour calls one function once
DetectBlinkAny ==
    /\ last.op = "none"
    /\ \E predictor \in BOOLEAN, frames \in BlinkFrames :
        Call("detect_blink", [predictor |-> predictor, frames |-> frames],
             detect_blink(predictor, frames))

\* ---- users/biometric_utils.py: validate_face_quality and its two callers ----

\* validate_face_quality(image_file, blur_threshold): (is_valid, issues).
\* f.available: BIOMETRIC_AVAILABLE; f.raises: loading or analysing the image
\* raises; f.faces: the faces found; f.small: the face is under MIN_FACE_SIZE;
\* f.sharpness: the Laplacian variance; f.brightness: the mean grey level
validate_face_quality(f, blur_threshold) ==
    IF ~f.available THEN [is_valid |-> FALSE, issues |-> {"unavailable"}]
    ELSE IF f.raises THEN [is_valid |-> FALSE, issues |-> {"failed"}]
    ELSE IF f.faces = 0 THEN [is_valid |-> FALSE, issues |-> {"no_face"}]
    ELSE IF f.faces > 1 THEN [is_valid |-> FALSE, issues |-> {"multiple_faces"}]
    ELSE LET issues == (IF f.small THEN {"too_small"} ELSE {})
                       \cup (IF f.sharpness < blur_threshold THEN {"too_blurry"} ELSE {})
                       \cup (IF f.brightness < 30 THEN {"too_dark"}
                             ELSE IF f.brightness > 220 THEN {"too_bright"} ELSE {})
         IN  [is_valid |-> issues = {}, issues |-> issues]

\* LiveFaceUploadSerializer.validate_live_face_image (live login and face
\* match): file size, content type, then quality with blur_threshold 50
LiveFaceUpload_validate(f) ==
    IF f.too_large THEN [is_valid |-> FALSE, issues |-> {"too_large"}]
    ELSE IF ~f.allowed_type THEN [is_valid |-> FALSE, issues |-> {"bad_type"}]
    ELSE validate_face_quality(f, 50)

\* the registration validator as it would be with a blur threshold of 30
BiometricRegistration_validate_lenient(f) ==
    IF f.too_large THEN [is_valid |-> FALSE, issues |-> {"too_large"}]
    ELSE validate_face_quality(f, 30)

\* BiometricRegistrationSerializer.validate_live_face_image: file size, then
\* quality with blur_threshold 70
BiometricRegistration_validate(f) ==
    IF f.too_large THEN [is_valid |-> FALSE, issues |-> {"too_large"}]
    ELSE validate_face_quality(f, 70)

FaceFiles ==
    [available : BOOLEAN, raises : BOOLEAN, faces : 0..2, small : BOOLEAN,
     sharpness : {40, 60, 80}, brightness : {20, 100, 230},
     too_large : BOOLEAN, allowed_type : BOOLEAN]

\* the same upload given to the validator of login and to that of registration
ValidateLiveFaceAny ==
    /\ last.op = "none"
    /\ \E f \in FaceFiles :
        Call("validate_live_face_image", f,
             [login |-> LiveFaceUpload_validate(f),
              registration |-> BiometricRegistration_validate(f)])

\* ---- users/liveness_detection.py: perform_liveness_check ----

\* perform_liveness_check(video_frames).  a.predictor: whether the landmark
\* model was loaded (detect_blink raises without it); a.empty: video_frames
\* is empty (no blink, no movement, and video_frames[0] raises IndexError);
\* a.blink, a.movement: what the two detectors find; a.photo: what
\* detect_photo_attack does on the first frame.  An exception is caught and
\* leaves is_live and confidence as initialised.
perform_liveness_check(a) ==
    LET Entry(passed) == IF passed THEN "passed" ELSE "failed"
        blink == ~a.empty /\ a.blink
        movement == ~a.empty /\ a.movement
        passed_checks == (IF blink THEN 1 ELSE 0) + (IF movement THEN 1 ELSE 0)
                             + (IF a.photo = "pass" THEN 1 ELSE 0)
        total_checks == 3
    IN  IF ~a.predictor
        THEN [is_live |-> FALSE, confidence |-> Ratio(0, 1), error |-> TRUE,
              checks |-> [blink |-> "absent", movement |-> "absent",
                          photo_attack |-> "absent"]]
        ELSE IF a.empty \/ a.photo = "raise"
        THEN [is_live |-> FALSE, confidence |-> Ratio(0, 1), error |-> TRUE,
              checks |-> [blink |-> Entry(blink), movement |-> Entry(movement),
                          photo_attack |-> "absent"]]
        ELSE [is_live |-> 100 * passed_checks >= 67 * total_checks,    \* confidence >= 0.67
              confidence |-> Ratio(passed_checks, total_checks), error |-> FALSE,
              checks |-> [blink |-> Entry(blink), movement |-> Entry(movement),
                          photo_attack |-> Entry(a.photo = "pass")]]

PerformLivenessCheckAny ==
    /\ last.op = "none"
    /\ \E a \in [predictor : BOOLEAN, empty : BOOLEAN, blink : BOOLEAN, movement : BOOLEAN,
                 photo : {"pass", "fail", "raise"}] :
        Call("perform_liveness_check", a, perform_liveness_check(a))

MaxUserCount == 1001     \* the largest population size asked about

GetAdaptiveThresholdAny ==
    /\ last.op = "none"
    /\ \E user_count \in 0..MaxUserCount :
        Call("get_adaptive_threshold", user_count, get_adaptive_threshold(user_count))

NextFunctions ==
    \/ DetectBlinkAny
    \/ GetAdaptiveThresholdAny
    \/ ValidateLiveFaceAny
    \/ PerformLivenessCheckAny

SpecFunctions == InitProfiles /\ [][NextFunctions]_vars

\* ==== the properties ====

\* ---- vocabulary of the properties ----

\* the user-id u was stored under token t when the session was created
Stored(t, u) ==
    /\ sessionLog[t].minted
    /\ \/ sessionLog[t].kind = "user" /\ sessionLog[t].user_id = u
       \/ /\ sessionLog[t].kind = "candidates"
          /\ \E i \in 1..Len(sessionLog[t].candidates) : sessionLog[t].candidates[i] = u

\* a response that fails as session-expired
SessionExpired(resp) ==
    /\ resp.op = "confirm_identity"
    /\ resp.http = 401
    /\ resp.status \in {"expired_or_invalid", "expired"}
    /\ ~resp.minted

\* in this step a confirm call for token t finds a session and goes on to
\* validate against it
EntersValidate(t) ==
    \E q \in BagToSet(reqs') :
        /\ q.pc = "validate"
        /\ q.token = t
        /\ CopiesIn(q, reqs') > CopiesIn(q, reqs)

\* in this step a confirm call for token t is answered at the session lookup
AnsweredAtOnce(t) ==
    /\ reqs' = reqs
    /\ last' # last
    /\ last'.op = "confirm_identity"
    /\ last'.token = t

\* in this step the confirm call q calls RefreshToken.for_user
ConfirmMints(q) ==
    /\ q.pc = "delete"
    /\ q.result = "success"
    /\ CopiesIn(q, reqs') > CopiesIn(q, reqs)

\* in this step an endpoint other than confirm-identity calls RefreshToken.for_user
DirectMint ==
    /\ last'.minted
    /\ last'.op # "confirm_identity"
    /\ last' # last \/ ratelimit' # ratelimit

\* the users the identifier scans, and their distance to a probe
Candidates == {u \in UserIds : Eligible(profiles[u])}
Dist(u, image) == Abs(profiles[u].live_face_encoding - image)
IsFace(image) == image \notin {NoFace, NoImage}

\* ---- C1 ----

\* C1: after any sequence of registrations, toggles and staff verifications
\* (approved or not), no biometric profile has face_recognition_enabled = true
\* while is_face_verified = false.
C1_EnabledImpliesVerified ==
    \A u \in UserIds :
        profiles[u].exists /\ profiles[u].face_recognition_enabled
            => profiles[u].is_face_verified

\* ---- C2 ----

\* C2: once a confirm call on a live session has completed, with credentials
\* issued or with 'rejected', every confirm call made afterwards with the same
\* token finds no session: it is answered session-expired and issues nothing.
C2_SingleUse ==
    [][\A t \in Tokens :
          consumed[t] \in {"success", "rejected"}
              => /\ ~EntersValidate(t)
                 /\ AnsweredAtOnce(t) => SessionExpired(last')]_vars

\* a confirm call is answered session-expired although the 60 seconds of its
\* token have not passed, the token having been used up
C2_Witness ==
    /\ last.op = "confirm_identity"
    /\ SessionExpired(last)
    /\ consumed[last.token] \in {"success", "rejected"}
    /\ last.at < sessionLog[last.token].expires

\* ---- C3 ----

\* C3: of the confirm calls with confirmed=true that are processed for one
\* live token, in any interleaving of their steps, no more than one issues
\* credentials.
C3_OneIssuer ==
    \A t \in Tokens :
        \A q \in BagToSet(reqs) :
            q.pc = "delete" /\ q.result = "success" /\ q.token = t
                => /\ CopiesIn(q, reqs) = 1
                   /\ consumed[t] # "success"
                   /\ \A q2 \in BagToSet(reqs) :
                          q2.pc = "delete" /\ q2.result = "success" /\ q2.token = t
                              => q2 = q

\* ---- C4 ----

\* the session of token t is live: created, within its 60 seconds, not used up
Live(t) ==
    /\ sessionLog[t].minted
    /\ now <= sessionLog[t].expires
    /\ consumed[t] = "no"

\* (a) the confirm call q has confirmed=true and a live session storing its user
ConfirmedIdentification(q) == q.confirmed /\ Stored(q.token, q.user_id) /\ Live(q.token)

\* (b) the response follows a 1:1 comparison of the submitted face against the
\* stored encoding of the user it names, which matched (tolerance 0.75 in
\* face login, 0.6 in confirm-face-login)
OneToOneMatch(resp) ==
    /\ resp.op \in {"face_login", "confirm_face_login"}
    /\ resp.user \in UserIds
    /\ IsFace(resp.image)
    /\ profiles[resp.user].exists
    /\ Dist(resp.user, resp.image) <= (IF resp.op = "face_login" THEN 75 ELSE 60)

\* (c) the response of quick-face-login names an active user whom the 1:N
\* identification singled out: within the adaptive threshold, and no other
\* candidate closer than that user's distance + 0.1
QuickIdentification(resp) ==
    /\ resp.op = "quick_face_login"
    /\ resp.user \in Candidates
    /\ IsFace(resp.image)
    /\ users[resp.user].is_active
    /\ Dist(resp.user, resp.image) <= get_adaptive_threshold(Cardinality(Candidates))
    /\ \A v \in Candidates \ {resp.user} :
           Dist(v, resp.image) >= Dist(resp.user, resp.image) + 10

\* C4 (as the specification states it): tokens are minted for a user only
\* (a) inside a confirm call with confirmed=true on a live session that stores
\* that user, or (b) after a 1:1 comparison of a submitted face against that
\* user's stored encoding returned a match; never on a 1:N identification alone.
C4_MintOnlyConfirmedOrOneToOne ==
    [][/\ \A q \in BagToSet(reqs') : ConfirmMints(q) => ConfirmedIdentification(q)
       /\ DirectMint => OneToOneMatch(last')]_vars

\* C4 (amended): among the face login endpoints, tokens are minted for a user
\* only (a) inside a confirm call with confirmed=true on a live session that
\* stores that user, (b) after a 1:1 comparison of a submitted face against
\* that user's stored encoding returned a match, or (c) by quick-face-login
\* when its 1:N identification singled out that active user.
C4_MintOnlyAfterIdentification ==
    [][/\ \A q \in BagToSet(reqs') : ConfirmMints(q) => ConfirmedIdentification(q)
       /\ DirectMint => OneToOneMatch(last') \/ QuickIdentification(last')]_vars

\* quick-face-login has minted tokens for the user its 1:N identification found
C4_Witness ==
    /\ last.op = "quick_face_login"
    /\ last.minted
    /\ QuickIdentification(last)

\* ---- C5 ----

\* C5: a confirm call with confirmed=true issues credentials only for a
\* user-id stored under its token when the session was created: the stored
\* user_id of a single-candidate session, or a member of the stored candidate
\* list of a multi-candidate session.
C5_OnlyStoredUser ==
    /\ \A q \in BagToSet(reqs) :
           q.pc = "delete" /\ q.result = "success"
               => q.confirmed /\ Stored(q.token, q.user_id)
    /\ last.op = "confirm_identity" /\ last.minted
           => last.confirmed /\ Stored(last.token, last.user)

\* credentials are issued for a member of a stored candidate list
C5_Witness ==
    /\ last.op = "confirm_identity"
    /\ last.status = "success"
    /\ last.minted
    /\ sessionLog[last.token].kind = "candidates"
    /\ Stored(last.token, last.user)

\* ---- C6 ----

\* C6: a confirm call made more than 60 seconds after its token was minted
\* finds no session to validate against, whether the store still holds the
\* entry or not: it is answered session-expired and issues nothing.
C6_ExpiresAfterSixtySeconds ==
    [][\A t \in Tokens :
          sessionLog[t].minted /\ now > sessionLog[t].at + 60
              => /\ ~EntersValidate(t)
                 /\ AnsweredAtOnce(t) => SessionExpired(last')]_vars

\* a confirm call made later than 60 seconds after its token was minted found
\* the entry still in the store and was answered session-expired
C6_Witness ==
    /\ last.op = "confirm_identity"
    /\ last.status = "expired"
    /\ SessionExpired(last)
    /\ consumed[last.token] = "no"
    /\ last.at > sessionLog[last.token].at + 60

\* ---- C7 ----

\* C7: every confirm call that found an unexpired session entry for its token
\* leaves the entry deleted when it returns, whatever its outcome.
C7_ReturnLeavesEntryDeleted ==
    [][last'.op = "confirm_identity" /\ BagCardinality(reqs') < BagCardinality(reqs)
          => ~cache'[last'.token].present]_vars

\* ---- C8 ----

\* C8: after identify has returned a session token for an active user U, the
\* first confirm call made within 60 seconds with that token, U's id and
\* confirmed=true is not turned away at the session lookup.
C8_FirstConfirmFindsSession ==
    [][/\ last.op = "identify"
       /\ last.status = "identified"
       /\ users[last.user].is_active
       /\ now <= sessionLog[last.token].at + 60
       /\ last'.user = last.user
       /\ last'.confirmed
       => ~AnsweredAtOnce(last.token)]_vars

\* ---- C9 ----

\* every candidate's distance to the probe exceeds the adaptive threshold
AllExceed(image) ==
    \A u \in Candidates :
        Dist(u, image) > get_adaptive_threshold(Cardinality(Candidates))

\* C9: whenever every enrolled candidate's distance to the probe exceeds the
\* adaptive threshold, the identify endpoint creates no session entry and
\* returns no session token.
C9_NoMatchNoSession ==
    [][last'.op = "identify" /\ IsFace(last'.image) /\ AllExceed(last'.image)
          => /\ cache' = cache
             /\ sessionLog' = sessionLog
             /\ nextToken' = nextToken
             /\ last'.token = NoToken]_vars

\* identify has answered a probe that every candidate misses by the adaptive
\* threshold, one of them by less than the default threshold of 0.6
C9_Witness ==
    /\ last.op = "identify"
    /\ IsFace(last.image)
    /\ AllExceed(last.image)
    /\ \E u \in Candidates : Dist(u, last.image) <= 60
    /\ last.token = NoToken
    /\ \A t \in Tokens : ~sessionLog[t].minted

\* ---- C10 ----

\* the best distance of a probe, and whether another candidate is closer than
\* the best distance + 0.1
IsBest(u, image) == u \in Candidates /\ \A w \in Candidates : Dist(u, image) <= Dist(w, image)
SecondClose(image) ==
    \E u \in Candidates, v \in Candidates :
        u # v /\ IsBest(u, image) /\ Dist(v, image) < Dist(u, image) + 10

\* the result lists at most three candidates, none farther than one left out
ClosestThree(r, image) ==
    /\ Len(r.matches) <= 3
    /\ \A i \in 1..Len(r.matches) :
           /\ r.matches[i].user \in Candidates
           /\ r.matches[i].distance = Dist(r.matches[i].user, image)
           /\ \A w \in Candidates :
                  (\A j \in 1..Len(r.matches) : r.matches[j].user # w)
                      => r.matches[i].distance <= Dist(w, image)

\* C10: identify never returns a user when a second candidate is closer than
\* the best distance + 0.1; with the best distance within the threshold it
\* returns no user, the best distance and at most the three closest
\* candidates, and the endpoint answers 'ambiguous', never 'identified'.
C10_CloseSecondIsAmbiguous ==
    /\ \A image \in {0} :
           LET r == identify_user_by_face(image, profiles)
           IN  SecondClose(image)
                   => /\ r.user = NoUser
                      /\ (\E u \in Candidates :
                              /\ IsBest(u, image)
                              /\ Dist(u, image) <= get_adaptive_threshold(Cardinality(Candidates)))
                             => /\ ~r.raised
                                /\ \E u \in Candidates :
                                       IsBest(u, image) /\ r.distance = Dist(u, image)
                                /\ ClosestThree(r, image)
    /\ last.op = "identify" /\ IsFace(last.image) /\ SecondClose(last.image)
           => last.status # "identified" /\ last.user = NoUser

\* three candidates at distances 0.40, 0.45 and 0.90, threshold 0.6: the
\* endpoint has answered 'ambiguous'
C10_Witness ==
    /\ Cardinality(Candidates) = 3
    /\ {Dist(u, 0) : u \in Candidates} = {40, 45, 90}
    /\ last.op = "identify"
    /\ last.image = 0
    /\ last.status = "ambiguous"
    /\ last.user = NoUser

\* ---- C11 ----

\* the probes of the identifier in which a face is found
FaceProbes == {image \in IdentifyProbes : IsFace(image)}

\* the threshold the identifier applies to the present population
ActiveThreshold == get_adaptive_threshold(Cardinality(Candidates))

\* the closest candidate is within the threshold and no other candidate is
\* closer than its distance + 0.1
ClearWin(image) ==
    \E u \in Candidates :
        /\ IsBest(u, image)
        /\ Dist(u, image) <= ActiveThreshold
        /\ \A v \in Candidates \ {u} : Dist(v, image) >= Dist(u, image) + 10

\* C11: when the closest candidate's distance is at most the active threshold
\* and no other candidate is within that distance + 0.1, identify returns the
\* closest candidate's user (the minimum distance over the whole scanned
\* population) with its distance, and the endpoint answers 'identified' with
\* that user.
C11_ClearWinnerIsClosest ==
    /\ \A image \in FaceProbes :
           LET r == identify_user_by_face(image, profiles)
           IN  ClearWin(image)
                   => /\ ~r.raised
                      /\ IsBest(r.user, image)
                      /\ r.distance = Dist(r.user, image)
                      /\ ClosestThree(r, image)
    /\ (/\ last.op = "identify"
        /\ last.status # "rate_limited"
        /\ IsFace(last.image)
        /\ ClearWin(last.image))
           => last.status = "identified" /\ IsBest(last.user, last.image)

\* three candidates at distances 0.30, 0.55 and 0.90, threshold 0.6: the
\* endpoint has answered 'identified' with the candidate at 0.30
C11_Witness ==
    /\ Cardinality(Candidates) = 3
    /\ {Dist(u, 0) : u \in Candidates} = {30, 55, 90}
    /\ last.op = "identify"
    /\ last.image = 0
    /\ last.status = "identified"
    /\ Dist(last.user, 0) = 30
    /\ Dist(biometric_users(profiles)[1], 0) # 30

\* ---- C12 ----

\* C12: when the scanned population is non-empty and the closest candidate's
\* distance exceeds the active threshold, identify returns normally with no
\* user, the best distance and the (up to three) closest candidates, and the
\* caller quick_face_login reports NO_MATCH.
C12_NoMatchReturnsNormally ==
    \A image \in FaceProbes :
        LET r == identify_user_by_face(image, profiles)
        IN  Candidates # {} /\ AllExceed(image)
                => /\ ~r.raised
                   /\ r.user = NoUser
                   /\ \E u \in Candidates : IsBest(u, image) /\ r.distance = Dist(u, image)
                   /\ ClosestThree(r, image)
                   /\ quick_face_login(image, profiles).status = "NO_MATCH"

\* ---- C13 ----

\* the profiles that identify compares the probe against
Scanned == {biometric_users(profiles)[i] : i \in 1..Len(biometric_users(profiles))}

\* C13: the set of profiles that identify compares the probe against is
\* exactly the set of profiles with face_recognition_enabled = true and
\* is_face_verified = true, whatever their ledger status.
C13_PopulationIsEnabledAndVerified ==
    \A u \in UserIds :
        u \in Scanned <=> /\ profiles[u].exists
                          /\ profiles[u].face_recognition_enabled
                          /\ profiles[u].is_face_verified

\* ---- C14 ----

\* the outcome that a response of an identification endpoint signals
Outcome(resp) ==
    IF resp.http = 429 THEN "RATE_LIMITED"
    ELSE IF resp.http = 200 /\ resp.status \in {"identified", "success"} THEN "SUCCESS"
    ELSE IF resp.http = 200 /\ resp.status = "ambiguous" THEN "AMBIGUOUS"
    ELSE IF resp.http = 401 /\ resp.status \in {"not_found", "no_match"} THEN "NO_MATCH"
    ELSE IF resp.http \in {400, 403, 500} THEN "ERROR"
    ELSE "EXCEPTION"

C15_SixthAttemptIsRateLimited ==
    /\ last.op \in {"identify", "quick_face_login"} => last.streak <= 5
    /\ last.op \in {"identify", "quick_face_login"} /\ last.http = 429
           => last.status = "rate_limited" /\ ~last.minted /\ last.token = NoToken

\* ---- C16 ----

\* C16: face_recognition_enabled is true for a profile only if a face
\* comparison involving that user's live face was executed beforehand and
\* returned is_match = true: the profile holds the encoding of the face it
\* was compared with, within the match threshold of the live encoding.
C16_EnabledOnlyAfterMatch ==
    \A u \in UserIds :
        profiles[u].exists /\ profiles[u].face_recognition_enabled
            => /\ profiles[u].id_face_encoding # NoEncoding
               /\ compare_faces(profiles[u].id_face_encoding,
                                 profiles[u].live_face_encoding,
                                 get_face_match_threshold).is_match

\* ---- C17 ----

\* C17: every face-based login path mints tokens for a user only if that
\* user's profile has face_recognition_enabled = true at the moment the tokens
\* are minted.
C17_MintOnlyWhileEnabled ==
    [][/\ \A q \in BagToSet(reqs') :
              ConfirmMints(q) => profiles[q.user_id].face_recognition_enabled
       /\ DirectMint => profiles[last'.user].face_recognition_enabled]_vars

\* ---- C18 ----

\* the identifier's outcome for the probe is AMBIGUOUS: the best distance is
\* within the active threshold and the runner-up within the 0.1 margin
IdentifierAmbiguous(image) ==
    /\ SecondClose(image)
    /\ \E u \in Candidates : IsBest(u, image) /\ Dist(u, image) <= ActiveThreshold

\* C18: whenever the identifier's outcome is AMBIGUOUS, the identify endpoint
\* mints a session token and passes to the cache, under that token, the
\* ranked candidate list, which has at least 2 and at most 3 entries and
\* includes the best candidate.
C18_AmbiguousStoresCandidates ==
    (/\ last.op = "identify"
     /\ last.status # "rate_limited"
     /\ IsFace(last.image)
     /\ IdentifierAmbiguous(last.image))
        => /\ last.token \in Tokens
           /\ LET log == sessionLog[last.token]
              IN  /\ log.minted
                  /\ log.kind = "candidates"
                  /\ Len(log.candidates) >= 2
                  /\ Len(log.candidates) <= 3
                  /\ \A i, j \in 1..Len(log.candidates) :
                         i < j => Dist(log.candidates[i], last.image)
                                      <= Dist(log.candidates[j], last.image)
                  /\ IsBest(log.candidates[1], last.image)

\* ---- C19 ----

\* the checks that a liveness call requires, and those of them that passed
Checks == {"blink", "movement", "photo_attack"}
Required(a) ==
    {c \in Checks : \/ c = "blink" /\ a.require_blink
                    \/ c = "movement" /\ a.require_movement
                    \/ c = "photo_attack" /\ a.check_photo_attack}
Passed(resp) == {c \in Required(resp.args) : resp.result.checks[c].passed}

\* what the detector does in check c of the call
Detected(a, c) ==
    IF c = "blink" THEN a.blink
    ELSE IF c = "movement" THEN a.movement
    ELSE IF a.photo_raises THEN "raise" ELSE photo_vote(a.frames)

\* C19: for every combination of require_blink, require_movement,
\* check_photo_attack and per-check results, the confidence of the liveness
\* result equals (required checks that passed) / (required checks), and
\* is_live is true if and only if every required check passed; a required
\* check counts as passed exactly when its detector passed.
C19_ConfidenceIsPassedOverRequired ==
    last.op = "liveness" /\ ~last.result.raised
        => /\ Required(last.args) # {}
                  => RatioEq(last.result.confidence,
                             Ratio(Cardinality(Passed(last)),
                                   Cardinality(Required(last.args))))
           /\ last.result.is_live <=> Passed(last) = Required(last.args)
           /\ \A c \in Required(last.args) :
                  last.result.checks[c].passed <=> Detected(last.args, c) = "pass"

\* three checks required, two of them passed: confidence 2/3, not live
C19_Witness ==
    /\ last.op = "liveness"
    /\ ~last.result.raised
    /\ Cardinality(Required(last.args)) = 3
    /\ Cardinality(Passed(last)) = 2
    /\ RatioEq(last.result.confidence, Ratio(2, 3))
    /\ ~last.result.is_live

\* ---- C20 ----

\* the call returns a result in which every required check was evaluated and
\* a check whose detector raised is recorded as passed = false with an error
ReturnsEveryCheck(resp) ==
    /\ ~resp.result.raised
    /\ resp.http = 200
    /\ ~resp.result.error
    /\ \A c \in Checks :
           /\ resp.result.checks[c].ran <=> c \in Required(resp.args)
           /\ Detected(resp.args, c) = "raise" /\ c \in Required(resp.args)
                  => ~resp.result.checks[c].passed /\ resp.result.checks[c].error

\* C20 (as the specification states it): the composite liveness check always
\* returns a result and never raises; a failure inside a single check is
\* recorded as that check having passed = false with an error detail, while
\* the remaining required checks are still evaluated.
C20_AlwaysReturns ==
    last.op = "liveness" => ReturnsEveryCheck(last)

\* C20 (amended): when the biometric libraries are available, the composite
\* liveness check returns a result and does not raise, a failure inside a
\* single check is recorded as passed = false with an error detail and the
\* remaining required checks are still evaluated; when the libraries are not
\* available it raises LivenessError before any check is run.
C20_ReturnsWhenAvailable ==
    last.op = "liveness"
        => IF last.args.available
           THEN ReturnsEveryCheck(last)
           ELSE /\ last.result.raised
                /\ \A c \in Checks : ~last.result.checks[c].ran

\* the blink detector has raised and the two checks after it were evaluated
C20_Witness ==
    /\ last.op = "liveness"
    /\ last.args.available
    /\ Required(last.args) = Checks
    /\ last.args.blink = "raise"
    /\ last.result.checks["blink"].error
    /\ last.result.checks["movement"].ran
    /\ last.result.checks["photo_attack"].passed

\* ---- C21 ----

\* C21: given the EAR values of the frames in which a face was found, the
\* blink check passes if and only if there are at least 5 such values,
\* (max EAR - min EAR) >= 0.05 and the boolean series (EAR < 0.25) changes
\* value at least twice; with fewer than 5 values it reports not-passed with
\* an error detail.
C21_BlinkIffDipAndRecovery ==
    (last.op = "detect_blink" /\ last.args.predictor) =>
        LET found == SelectSeq(last.args.frames, LAMBDA f : f # NoFace)
            ears == {found[i] : i \in 1..Len(found)}
            range == CHOOSE d \in 0..100 : \E hi \in ears, lo \in ears :
                         /\ d = hi - lo
                         /\ \A e \in ears : lo <= e /\ e <= hi
            flips == Cardinality({i \in 1..(Len(found) - 1) :
                         (found[i] < 25) # (found[i + 1] < 25)})
        IN  /\ ~last.result.raised
            /\ last.result.passed <=> (Len(found) >= 5 /\ range >= 5 /\ flips >= 2)
            /\ Len(found) < 5 => (~last.result.passed /\ last.result.error)

\* the series [0.35, 0.35, 0.20, 0.20, 0.35, 0.35] was judged a blink
C21_Witness ==
    /\ last.op = "detect_blink"
    /\ last.args.predictor
    /\ last.args.frames = <<35, 35, 20, 20, 35, 35>>
    /\ last.result.passed

\* ---- C22 ----

\* C22: if recording the profile hash on the ledger fails during enrollment
\* (exception or non-success result), the enrollment still completes: the
\* user and the biometric profile exist afterwards and the profile's ledger
\* status is FAILED.
C22_LedgerFailureKeepsEnrollment ==
    (last.op = "register" /\ last.ledger \in {"failed", "raise"}) =>
        /\ last.http = 201
        /\ users[last.user].exists
        /\ profiles[last.user].exists
        /\ profiles[last.user].status = "FAILED"

\* the ledger call of a registration raised, and the registration was answered
C22_Witness ==
    /\ last.op = "register"
    /\ last.ledger = "raise"
    /\ last.user # NoUser
    /\ profiles[last.user].status = "FAILED"

\* ---- C30 ----

\* C30: enrollment is all-or-nothing: whenever a biometric registration
\* request ends in an error, that request leaves behind no user account that
\* lacks a biometric profile.
C30_NoUserWithoutProfile ==
    [][(last'.op = "register" /\ last'.http >= 400) =>
          \A u \in UserIds :
              (users'[u].exists /\ ~profiles'[u].exists) =>
                  (users[u].exists /\ ~profiles[u].exists)]_vars

\* ---- C23 ----

\* C23: for every population size n >= 0 the adaptive threshold is 0.6 if
\* n < 10, 0.55 if n < 100, 0.5 if n < 1000 and 0.45 otherwise, hence it
\* never increases as n increases.
C23_ThresholdStepsDown ==
    last.op = "get_adaptive_threshold" =>
        /\ last.args < 10 => last.result = 60
        /\ (10 <= last.args /\ last.args < 100) => last.result = 55
        /\ (100 <= last.args /\ last.args < 1000) => last.result = 50
        /\ last.args >= 1000 => last.result = 45
        /\ \A m \in 0..last.args : get_adaptive_threshold(m) >= last.result

\* the threshold of a population of exactly 1000 was asked and is 0.45
C23_Witness ==
    /\ last.op = "get_adaptive_threshold"
    /\ last.args = 1000
    /\ last.result = 45

\* ---- C24 ----

\* C24 (as the specification states it): the blur threshold applied to a face
\* image submitted for live login is stricter than the one applied at
\* registration, so every image whose sharpness passes login validation also
\* passes registration validation.  (The sharpness passes when the validator
\* got as far as scoring it and did not report the image as too blurry.)
C24_LoginBlurIsStricter ==
    last.op = "validate_live_face_image" =>
        LET SharpnessPassed(result) ==
                result.issues \cap {"unavailable", "failed", "no_face", "multiple_faces",
                                    "too_large", "bad_type", "too_blurry"} = {}
        IN  SharpnessPassed(last.result.login) => SharpnessPassed(last.result.registration)

\* C24 (amended): the blur threshold of live login (50) is more lenient than
\* that of registration (70): what login rejects as too blurry, registration
\* rejects as too blurry.
C24_LoginBlurIsMoreLenient ==
    last.op = "validate_live_face_image" =>
        ("too_blurry" \in last.result.login.issues
            => "too_blurry" \in last.result.registration.issues)

\* an upload of sharpness 40 was rejected as too blurry by both validators
C24_Witness ==
    /\ last.op = "validate_live_face_image"
    /\ last.args.sharpness = 40
    /\ "too_blurry" \in last.result.login.issues
    /\ "too_blurry" \in last.result.registration.issues

\* ---- C25 ----

\* C25: when the quick-login endpoint's 1:N identification yields SUCCESS for
\* an active user, the request completes with HTTP 200, status 'success' and
\* a refresh/access token pair for that user.
C25_QuickSuccessReturnsTokens ==
    (/\ last.op = "quick_face_login"
     /\ last.http \notin {400, 429}
     /\ quick_face_login(last.image, profiles).status = "SUCCESS"
     /\ users[quick_face_login(last.image, profiles).user].is_active)
        => /\ last.http = 200
           /\ last.status = "success"
           /\ last.minted
           /\ last.user = quick_face_login(last.image, profiles).user

\* ---- C26 ----

\* C26: after any sequence of product operations (create, update,
\* update_stock, bulk_update), no stored product has stock_quantity = 0
\* together with status 'active': a product whose stock is 0 while its status
\* is 'active' is stored as 'out_of_stock'.
C26_NoActiveProductWithoutStock ==
    \A p \in 1..MaxProducts :
        products[p].exists => ~(products[p].stock_quantity = 0 /\ products[p].status = "active")

\* ---- C27 ----

\* C27: perform_liveness_check reports is_live = true if and only if at least
\* 2 of its 3 checks (blink, head movement, photo attack) passed.
C27_LiveIffTwoOfThree ==
    last.op = "perform_liveness_check" =>
        (last.result.is_live <=>
            Cardinality({c \in {"blink", "movement", "photo_attack"} :
                            last.result.checks[c] = "passed"}) >= 2)

\* ---- C28 ----

\* C28: no face-based login endpoint (1:1 face login, quick face login,
\* confirm-face-login, confirm-identity) ever mints tokens for a user whose
\* account is inactive.
C28_NoMintForInactiveUser ==
    [][/\ \A q \in BagToSet(reqs') : ConfirmMints(q) => users[q.user_id].is_active
       /\ DirectMint => users[last'.user].is_active]_vars

\* ---- C29 ----

\* C29: when several requests from the same IP to the same
\* face-identification endpoint are processed concurrently, the number of
\* them admitted past the rate-limit check within one 60-second window still
\* never exceeds 5, i.e. the counter check and its increment behave as one
\* atomic step.
C29_AtMostFiveAdmitted ==
    last.op = "quick_face_login" => last.streak <= 5

====
